---------------------------- MODULE Spec2Model ----------------------------
(***************************************************************************)
(* HeteroNorm (torch_geometric/nn/norm/hetero_norm.py) as a state machine. *)
(*                                                                         *)
(* The state is one HeteroNorm instance: the attributes that __init__ has  *)
(* bound on it, the arguments __init__ was called with, and the outcome    *)
(* (return value or exception, with the raising source line) of the last   *)
(* call made on it.  A Python method is a function of self: it runs on the *)
(* instance in whatever state __init__ left it, and an attribute that was  *)
(* never bound raises AttributeError (torch.nn.Module.__getattr__), a name *)
(* the module never bound raises NameError.                                *)
(*                                                                         *)
(* Strings are sequences of one-character strings, so that str.lower() is  *)
(* computed character by character.                                        *)
(***************************************************************************)
EXTENDS Integers, Sequences, FiniteSets, TLC

VARIABLES
    args,     \* the arguments of the __init__ call that made the instance
    attrs,    \* attribute name -> value, as bound on self by __init__
    last,     \* the method called last: "__init__", "forward", ...
    x_rows,   \* x.size(0) of the last forward call (0 when there was none)
    exc,      \* the exception the last call raised, or NoExc
    ret       \* what the last call returned, or NoReturn

vars == <<args, attrs, last, x_rows, exc, ret>>

----------------------------------------------------------------------------
(* Bounds of the model.                                                    *)

\* in_channels ranges over 1 .. MaxChannels
MaxChannels == 2

\* x.size(0) ranges over 0 .. MaxRows
MaxRows == 3

----------------------------------------------------------------------------
(* Strings and str.lower().                                                *)

UpperLetters ==
    <<"A","B","C","D","E","F","G","H","I","J","K","L","M",
      "N","O","P","Q","R","S","T","U","V","W","X","Y","Z">>

LowerLetters ==
    <<"a","b","c","d","e","f","g","h","i","j","k","l","m",
      "n","o","p","q","r","s","t","u","v","w","x","y","z">>

\* str.lower() on one character: an upper-case letter maps to its lower-case
\* letter, every other character is unchanged.
LowerChar(c) ==
    IF \E i \in 1..Len(UpperLetters) : UpperLetters[i] = c
    THEN LowerLetters[CHOOSE i \in 1..Len(UpperLetters) : UpperLetters[i] = c]
    ELSE c

\* A plausible slip: the comparison is made on norm_type as given.
LowerNotApplied(s) == s

\* norm_type.lower()
Lower(s) == [i \in 1..Len(s) |-> LowerChar(s[i])]

\* The list literal of line 39.
NormNames ==
    { <<"b","a","t","c","h","n","o","r","m">>,
      <<"i","n","s","t","a","n","c","e","n","o","r","m">>,
      <<"l","a","y","e","r","n","o","r","m">> }

\* The names bound at module level when a method runs: the four imports
\* and the class itself.
ModuleGlobals == {"torch", "Tensor", "ToHeteroLinear", "Metadata", "HeteroNorm"}

----------------------------------------------------------------------------
(* The inputs.                                                             *)

NormTypes ==
    { <<"B","a","t","c","h","N","o","r","m">>,
      <<"b","a","t","c","h","n","o","r","m">>,
      <<"B","A","T","C","H","N","O","R","M">>,
      <<"b","A","t","C","h","N","o","R","m">>,
      <<"I","n","s","t","a","n","c","e","N","o","r","m">>,
      <<"i","n","s","t","a","n","c","e","n","o","r","m">>,
      <<"L","a","y","e","r","N","o","r","m">>,
      <<"L","A","Y","E","R","N","O","R","M">>,
      <<"G","r","a","p","h","N","o","r","m">>,
      <<"B","a","t","c","h">>,
      <<"b","a","t","c","h","_","n","o","r","m">>,
      <<"B","a","t","c","h","N","o","r","m"," ">>,
      <<"L","a","y","e","r","N","o","r","n">>,
      << >> }

\* Metadata = (node types, edge types)
Metadatas ==
    { << <<"paper">>, << >> >>,
      << <<"author", "paper">>, << <<"author", "writes", "paper">> >> >> }

Epsilons == {"1e-5", "1e-3"}

Momenta == {"0.1", "0.0"}

\* Every argument tuple of HeteroNorm.__init__.
Args ==
    [ in_channels : 1..MaxChannels,
      norm_type : NormTypes,
      metadata : Metadatas,
      eps : Epsilons,
      momentum : Momenta,
      affine : BOOLEAN,
      track_running_stats : BOOLEAN,
      allow_single_element : BOOLEAN ]

----------------------------------------------------------------------------
(* Outcomes of a call.                                                     *)

NoExc == [type |-> "none", line |-> 0]

Raise(type, line) == [type |-> type, line |-> line]

NoReturn == [kind |-> "none"]

\* The instance right after super().__init__(): nothing of HeteroNorm's own
\* is bound yet.
NoAttrs == [n \in {} |-> NoReturn]

----------------------------------------------------------------------------
(* HeteroNorm.__init__                                                     *)

\* A plausible slip: the conjunction written as a disjunction.
SingleElementRejectedSlip(a) ==
    a.allow_single_element \/ ~a.track_running_stats

\* The condition of line 41.
SingleElementRejected(a) ==
    a.allow_single_element /\ ~a.track_running_stats

\* The condition of line 39.
NormTypeRejected(a) == ~(Lower(a.norm_type) \in NormNames)

\* Linear(in_features, out_features), line 45
Linear(in_features, out_features) ==
    [kind |-> "Linear", in_features |-> in_features,
     out_features |-> out_features]

\* ToHeteroLinear(module, metadata), line 45
ToHeteroLinear(module, metadata) ==
    [kind |-> "ToHeteroLinear", module |-> module, metadata |-> metadata,
     parameters |-> "initial"]

\* The whole of __init__ on a fresh instance: the attributes it leaves bound
\* and the exception it raises, if any.
HeteroNorm_init(a) ==
    IF NormTypeRejected(a)
    THEN [attrs |-> NoAttrs, exc |-> Raise("ValueError", 40)]
    ELSE IF SingleElementRejected(a)
    THEN [attrs |-> NoAttrs, exc |-> Raise("ValueError", 42)]
    ELSE LET a1 == ("in_channels" :> a.in_channels)
         IN  IF ~("Linear" \in ModuleGlobals)
             THEN [attrs |-> a1, exc |-> Raise("NameError", 45)]
             ELSE [attrs |-> a1
                       @@ ("hetero_linear" :>
                              ToHeteroLinear(
                                  Linear(a1["in_channels"], a1["in_channels"]),
                                  a.metadata))
                       @@ ("allow_single_element" :> a.allow_single_element),
                   exc |-> NoExc]

----------------------------------------------------------------------------
(* The methods.                                                            *)

\* self.<name>: bound, or AttributeError
Bound(at, name) == name \in DOMAIN at

\* HeteroNorm.reset_parameters
reset_parameters(at) ==
    IF ~Bound(at, "module")
    THEN [attrs |-> at, exc |-> Raise("AttributeError", 50), ret |-> NoReturn]
    ELSE [attrs |-> [at EXCEPT !["module"] =
                        [at["module"] EXCEPT !.parameters = "reset"]],
          exc |-> NoExc,
          ret |-> [kind |-> "None"]]

\* HeteroNorm.forward
forward(at, rows) ==
    IF ~Bound(at, "allow_single_element")
    THEN [exc |-> Raise("AttributeError", 57), ret |-> NoReturn]
    ELSE IF at["allow_single_element"] /\ rows <= 1
    THEN IF ~Bound(at, "module")
         THEN [exc |-> Raise("AttributeError", 60), ret |-> NoReturn]
         ELSE [exc |-> NoExc,
               ret |-> [kind |-> "functional_batch_norm",
                        rows |-> rows,
                        running_mean |-> at["module"].running_mean,
                        running_var |-> at["module"].running_var,
                        weight |-> at["module"].weight,
                        bias |-> at["module"].bias,
                        bn_training |-> FALSE,
                        momentum |-> "0.0",
                        eps |-> at["module"].eps]]
    ELSE IF ~Bound(at, "module")
         THEN [exc |-> Raise("AttributeError", 68), ret |-> NoReturn]
         ELSE [exc |-> NoExc,
               ret |-> [kind |-> "module_call",
                        rows |-> rows,
                        module |-> at["module"]]]

\* HeteroNorm.__repr__
HeteroNorm_repr(at) ==
    IF ~Bound(at, "module")
    THEN [exc |-> Raise("AttributeError", 71), ret |-> NoReturn]
    ELSE [exc |-> NoExc,
          ret |-> [kind |-> "str",
                   class_name |-> "HeteroNorm",
                   num_features |-> at["module"].num_features]]

----------------------------------------------------------------------------
(* The state machine.                                                      *)

\* No __init__ call has been made yet.
NoArgs == [n \in {} |-> NoReturn]

\* The instance as allocated, before __init__ runs on it.
Init ==
    /\ args = NoArgs
    /\ attrs = NoAttrs
    /\ exc = NoExc
    /\ ret = NoReturn
    /\ last = "none"
    /\ x_rows = 0

\* HeteroNorm(...): __init__ runs once, on the fresh instance.
Construct ==
    /\ last = "none"
    /\ \E a \in Args :
        LET r == HeteroNorm_init(a)
        IN  /\ args' = a
            /\ attrs' = r.attrs
            /\ exc' = r.exc
            /\ last' = "__init__"
            /\ x_rows' = 0
            /\ ret' = NoReturn

ResetParameters ==
    LET r == reset_parameters(attrs)
    IN  /\ last # "none"
        /\ attrs' = r.attrs
        /\ exc' = r.exc
        /\ ret' = r.ret
        /\ last' = "reset_parameters"
        /\ x_rows' = 0
        /\ UNCHANGED args

Forward ==
    \E rows \in 0..MaxRows :
        LET r == forward(attrs, rows)
        IN  /\ last # "none"
            /\ exc' = r.exc
            /\ ret' = r.ret
            /\ last' = "forward"
            /\ x_rows' = rows
            /\ UNCHANGED <<args, attrs>>

Repr ==
    LET r == HeteroNorm_repr(attrs)
    IN  /\ last # "none"
        /\ exc' = r.exc
        /\ ret' = r.ret
        /\ last' = "__repr__"
        /\ x_rows' = 0
        /\ UNCHANGED <<args, attrs>>

Next == Construct \/ ResetParameters \/ Forward \/ Repr

Spec == Init /\ [][Next]_vars

----------------------------------------------------------------------------
(* What the claims speak of, stated without the model's own operators.     *)

\* Two characters that are the same letter, in either case.
SameLetter(c, d) ==
    \/ c = d
    \/ \E i \in 1..Len(UpperLetters) :
            {c, d} = {UpperLetters[i], LowerLetters[i]}

\* Two strings that are equal up to letter case.
SameUpToCase(s, t) ==
    /\ Len(s) = Len(t)
    /\ \A i \in 1..Len(s) : SameLetter(s[i], t[i])

BatchNormName == <<"B","a","t","c","h","N","o","r","m">>

InstanceNormName == <<"I","n","s","t","a","n","c","e","N","o","r","m">>

LayerNormName == <<"L","a","y","e","r","N","o","r","m">>

\* norm_type names one of the three normalizations, up to letter case.
NamesANorm(nt) ==
    \E n \in {BatchNormName, InstanceNormName, LayerNormName} :
        SameUpToCase(nt, n)

\* The normalization that norm_type names.
NormNamed(nt) ==
    IF SameUpToCase(nt, BatchNormName) THEN "BatchNorm"
    ELSE IF SameUpToCase(nt, InstanceNormName) THEN "InstanceNorm"
    ELSE "LayerNorm"

\* allow_single_element was asked for without track_running_stats.
SingleElementWithoutStats ==
    args.allow_single_element /\ ~args.track_running_stats

\* __init__ was called with arguments that pass both validation checks.
ValidArguments ==
    /\ last # "none"
    /\ NamesANorm(args.norm_type)
    /\ ~SingleElementWithoutStats

----------------------------------------------------------------------------
(* C1.  __init__ raises the ValueError of line 40 whenever norm_type does   *)
(* not name "batchnorm", "instancenorm" or "layernorm" up to letter case,   *)
(* whatever the other arguments are; and a norm_type that does name one of  *)
(* them, in any letter case, never raises it.                               *)
C1_NormTypeValidated ==
    last = "__init__" =>
        /\ ~NamesANorm(args.norm_type) => exc = Raise("ValueError", 40)
        /\ NamesANorm(args.norm_type) => exc # Raise("ValueError", 40)

\* __init__ was called with "GraphNorm", allow_single_element and
\* track_running_stats both set, and raised the ValueError of line 40.
C1_Witness ==
    /\ last = "__init__"
    /\ args.norm_type = <<"G","r","a","p","h","N","o","r","m">>
    /\ args.allow_single_element
    /\ args.track_running_stats
    /\ exc = Raise("ValueError", 40)

(* C2.  __init__ with allow_single_element=True and                        *)
(* track_running_stats=False raises ValueError (the one of line 42 when    *)
(* norm_type is valid); with any of the three other combinations of the    *)
(* two booleans the ValueError of line 42 is not raised.                   *)
C2_SingleElementValidated ==
    last = "__init__" =>
        /\ SingleElementWithoutStats => exc.type = "ValueError"
        /\ (SingleElementWithoutStats /\ NamesANorm(args.norm_type))
               => exc = Raise("ValueError", 42)
        /\ ~SingleElementWithoutStats => exc # Raise("ValueError", 42)

\* __init__ was called with a valid norm_type, allow_single_element=True and
\* track_running_stats=False, and raised the ValueError of line 42.
C2_Witness ==
    /\ last = "__init__"
    /\ NamesANorm(args.norm_type)
    /\ args.allow_single_element
    /\ ~args.track_running_stats
    /\ exc = Raise("ValueError", 42)

(* C3.  With arguments that pass both validation checks, __init__          *)
(* completes without error and leaves the instance holding a               *)
(* ToHeteroLinear sub-module built for in_channels and keyed by the given  *)
(* metadata.                                                               *)
C3_ConstructionCompletes ==
    (last = "__init__" /\ ValidArguments) =>
        /\ exc = NoExc
        /\ Bound(attrs, "hetero_linear")
        /\ attrs["hetero_linear"].kind = "ToHeteroLinear"
        /\ attrs["hetero_linear"].metadata = args.metadata
        /\ attrs["hetero_linear"].module.in_features = args.in_channels

(* C4.  On an instance made with valid arguments, forward(x) takes the     *)
(* functional batch-normalization path exactly when allow_single_element   *)
(* is True and x has at most one row, and in every other case returns the  *)
(* result of calling the wrapped sub-module on x.                          *)
C4_ForwardPaths ==
    (last = "forward" /\ ValidArguments) =>
        /\ exc = NoExc
        /\ ret.kind = IF args.allow_single_element /\ x_rows <= 1
                      THEN "functional_batch_norm"
                      ELSE "module_call"

(* C5.  With allow_single_element=True, forward on a batch of a single     *)
(* element works as in evaluation: the output comes from the functional    *)
(* call with the training flag False and momentum 0.0, which reads the     *)
(* running mean and variance and leaves them unchanged.                    *)
C5_SingleElementAsEval ==
    (last = "forward" /\ ValidArguments /\ args.allow_single_element
        /\ x_rows = 1) =>
        /\ exc = NoExc
        /\ ret.kind = "functional_batch_norm"
        /\ ret.bn_training = FALSE
        /\ ret.momentum = "0.0"
        /\ Bound(attrs, "module")
        /\ ret.running_mean = attrs["module"].running_mean
        /\ ret.running_var = attrs["module"].running_var

(* C6.  The norm_type given to __init__ selects the kind of sub-module the *)
(* instance wraps: batch, instance or layer normalization.                 *)
C6_NormTypeSelects ==
    (last = "__init__" /\ ValidArguments) =>
        /\ Bound(attrs, "hetero_linear")
        /\ attrs["hetero_linear"].module.kind = NormNamed(args.norm_type)

(* C7.  reset_parameters() on an instance made with valid arguments        *)
(* completes without error, having reset the parameters of the sub-module  *)
(* that __init__ built.                                                    *)
C7_ResetParameters ==
    (last = "reset_parameters" /\ ValidArguments) =>
        /\ exc = NoExc
        /\ Bound(attrs, "hetero_linear")
        /\ attrs["hetero_linear"].parameters = "reset"

(* C8.  The track_running_stats given to __init__ decides whether the      *)
(* wrapped normalization tracks running mean and variance.                 *)
C8_TrackRunningStats ==
    (last = "__init__" /\ ValidArguments) =>
        /\ Bound(attrs, "hetero_linear")
        /\ "track_running_stats" \in DOMAIN attrs["hetero_linear"].module
        /\ attrs["hetero_linear"].module.track_running_stats
               = args.track_running_stats

=============================================================================
